---- MODULE Spec2Model ----
(***************************************************************************)
(* Throw / lane state machine of the bowling alley (final iteration of     *)
(* App: setLaneStage, isPinUp, initControls, createPins, createBall).      *)
(*                                                                         *)
(* Units.  throwAngle is held in units of 0.5 (the only step the code      *)
(* uses; multiples of 0.5 are exact in binary floating point).  Pin        *)
(* coordinates and the ball's y and z are held in units of 0.005.  The     *)
(* ball's x is an IEEE-754 double, because the code accumulates 0.05, which*)
(* is not exact in binary: a double d is held as the integer d * 2^57,     *)
(* in sign-magnitude form with two limbs of 29 bits.  Pin rotations are    *)
(* the Euler angles that toEulerAngles() returns, held as the difference   *)
(* from the upright angles in units of 0.01 rad.                           *)
(***************************************************************************)
EXTENDS Integers, Sequences, FiniteSets, TLC

(***************************************************************************)
(* Bounds of the model.                                                    *)
(***************************************************************************)
NumPins == 2          \* pins modelled: the first NumPins entries of pinPositions
MaxCallbacks == 2     \* one-shot after-render callbacks waiting for one render
MaxTimers == 2        \* setTimeout callbacks waiting at once
MaxNudge == 1         \* Spec: nudges keep x within 0 .. MaxNudge * 0.05
MaxAim == 1           \* Spec: angle keys keep throwAngle within 0 .. MaxAim * 0.5
MaxJumps == 1         \* jump impulses the capsule's velocity holds at once
MaxYaw == 1            \* turns of the ball past the yaw of the widest angle
MaxFirstControllers == 5   \* controllers the earlier iteration constructs
MaxControllers == 2   \* controllers constructed before the latest one

(***************************************************************************)
(* IEEE-754 double arithmetic on the values the nudges produce.  Every     *)
(* value is an integer multiple of 2^-57 (the ulp of 0.05) below 4.        *)
(***************************************************************************)
Base == 536870912     \* 2^29, the limb size

FZero == [neg |-> FALSE, hi |-> 0, lo |-> 0]

\* 0.05 as a double: 7205759403792794 * 2^-57
F005 == [neg |-> FALSE, hi |-> 13421772, lo |-> 429496730]

\* 1.8 as a double: 259407338536540576 * 2^-57
F18 == [neg |-> FALSE, hi |-> 483183820, lo |-> 429496736]

FNeg(a) == IF a.hi = 0 /\ a.lo = 0 THEN a ELSE [a EXCEPT !.neg = ~a.neg]

MagLt(a, b) == a.hi < b.hi \/ (a.hi = b.hi /\ a.lo < b.lo)

MagAdd(a, b) ==
    LET s == a.lo + b.lo
    IN  [hi |-> a.hi + b.hi + (s \div Base), lo |-> s % Base]

\* a - b for MagLt(b, a) or equal magnitudes
MagSub(a, b) ==
    IF a.lo >= b.lo
    THEN [hi |-> a.hi - b.hi, lo |-> a.lo - b.lo]
    ELSE [hi |-> a.hi - b.hi - 1, lo |-> a.lo + Base - b.lo]

\* log2 of the ulp of magnitude m, in units of 2^-57: a 53-bit significand
UlpBits(m) ==
    IF m.hi >= 536870912 THEN 6        \* [2, 4)
    ELSE IF m.hi >= 268435456 THEN 5   \* [1, 2)
    ELSE IF m.hi >= 134217728 THEN 4   \* [1/2, 1)
    ELSE IF m.hi >= 67108864 THEN 3
    ELSE IF m.hi >= 33554432 THEN 2
    ELSE IF m.hi >= 16777216 THEN 1
    ELSE 0

\* round to nearest, ties to even
RoundMag(m) ==
    LET u == 2 ^ UlpBits(m)
        r == m.lo % u
        q == m.lo \div u
        down == [hi |-> m.hi, lo |-> m.lo - r]
        up == MagAdd(down, [hi |-> 0, lo |-> u])
    IN  IF 2 * r < u THEN down
        ELSE IF 2 * r > u THEN up
        ELSE IF q % 2 = 0 THEN down ELSE up

FMake(neg, m) ==
    IF m.hi = 0 /\ m.lo = 0 THEN FZero
    ELSE [neg |-> neg, hi |-> m.hi, lo |-> m.lo]

\* a + b in double precision
FAdd(a, b) ==
    IF a.neg = b.neg THEN FMake(a.neg, RoundMag(MagAdd(a, b)))
    ELSE IF MagLt(a, b) THEN FMake(b.neg, RoundMag(MagSub(b, a)))
    ELSE FMake(a.neg, RoundMag(MagSub(a, b)))

FSub(a, b) == FAdd(a, FNeg(b))

FLt(a, b) ==
    IF a.neg /\ ~b.neg THEN TRUE
    ELSE IF ~a.neg /\ b.neg THEN FALSE
    ELSE IF a.neg THEN MagLt(b, a)
    ELSE MagLt(a, b)

FGt(a, b) == FLt(b, a)

\* n * 0.05 as the code reaches it: n additions of 0.05 starting from 0
RECURSIVE FSteps(_)
FSteps(n) == IF n = 0 THEN FZero ELSE FAdd(FSteps(n - 1), F005)


(***************************************************************************)
(* Program constants.                                                      *)
(***************************************************************************)
Pins == 1 .. NumPins

DYNAMIC == "DYNAMIC"
STATIC == "STATIC"

AngleMax == 10            \* throwAngle >= 5, in units of 0.5
AngleMin == -10           \* throwAngle <= -5, in units of 0.5
InitialThrowPower == 100
PinHiddenY == 300         \* position.y = 1.5
BallLaunchY == 100        \* new Vector3(0, 0.5, 1)
BallLaunchZ == 200
BallLaunch == [x |-> FZero, y |-> BallLaunchY, z |-> BallLaunchZ]

\* the table built by the constructor, in units of 0.005
RestPositions ==
    << [x |-> 0, y |-> 0, z |-> 6302],
       [x |-> 110, y |-> 0, z |-> 6491],
       [x |-> -110, y |-> 0, z |-> 6491],
       [x |-> 0, y |-> 0, z |-> 6678],
       [x |-> 220, y |-> 0, z |-> 6678],
       [x |-> -220, y |-> 0, z |-> 6678],
       [x |-> -330, y |-> 0, z |-> 6870],
       [x |-> -110, y |-> 0, z |-> 6870],
       [x |-> 110, y |-> 0, z |-> 6870],
       [x |-> 330, y |-> 0, z |-> 6870] >>

\* this.pinPositions[i]: the Vector3 object held by entry i of the table.
\* Objects are named by numbers; object i is the one the constructor made
\* for entry i, and the array itself is never written again.
pinPositions(i) == i

\* Euler angles relative to (1.5650289785496072, 0.8744594232768839,
\* 0.8744420168855229), in units of 0.01 rad
\* set is FALSE when rotationQuaternion is null or undefined
UprightRotation == [set |-> TRUE, x |-> 0, y |-> 0, z |-> 0]
NoRotation == [set |-> FALSE, x |-> 0, y |-> 0, z |-> 0]
UpMargin == 7             \* the margin 0.07

Abs(n) == IF n < 0 THEN -n ELSE n

isPinUpInclusive(rotation) ==
    /\ rotation.set
    /\ Abs(rotation.x) <= UpMargin
    /\ Abs(rotation.y) <= UpMargin
    /\ Abs(rotation.z) <= UpMargin

\* App.isPinUp, on the rotation of the pin mesh
isPinUp(rotation) ==
    IF rotation.set
    THEN IF /\ Abs(rotation.x) < UpMargin
            /\ Abs(rotation.y) < UpMargin
            /\ Abs(rotation.z) < UpMargin
         THEN TRUE
         ELSE FALSE
    ELSE FALSE

(***************************************************************************)
(* What the physics engine can do to a pin in one step: nothing, rock it   *)
(* within the margin, or knock it over and push it along the lane.         *)
(***************************************************************************)
WobbleRotation == [set |-> TRUE, x |-> 6, y |-> 0, z |-> 0]
FallenRotation == [set |-> TRUE, x |-> 0, y |-> 7, z |-> 0]
\* rotations a pin can have come to rest at: upright, without a
\* quaternion, and off the upright angles by 0.06 or 0.07 on one axis or
\* on several
TiltSteps == {-7, -6, 6, 7}
RotationSamples ==
    {UprightRotation, NoRotation}
    \cup {[set |-> TRUE, x |-> d, y |-> 0, z |-> 0] : d \in TiltSteps}
    \cup {[set |-> TRUE, x |-> 0, y |-> d, z |-> 0] : d \in TiltSteps}
    \cup {[set |-> TRUE, x |-> 0, y |-> 0, z |-> d] : d \in TiltSteps}
    \cup {[set |-> TRUE, x |-> 6, y |-> -6, z |-> 6],
          [set |-> TRUE, x |-> 6, y |-> 6, z |-> 7],
          [set |-> FALSE, x |-> 6, y |-> 0, z |-> 0]}
PinPush == 100
BallPitZ == 7000

(***************************************************************************)
(* Character and CharacterController constants.                            *)
(***************************************************************************)
CROUCH_SPEED == 15        \* 0.015, in units of 0.001
WALK_SPEED == 30          \* 0.03
RUN_SPEED == 80           \* 0.08
JUMP_FORCE == 1000

\* the keys of the keyStatus object
StatusKeys == {" ", "Shift", "w", "arrowup", "a", "arrowleft",
               "s", "arrowright", "d", "arrowdown"}

\* the animation groups the constructor looks up
Clips == {"idle", "walk", "crouch", "run", "rumba", "sneakwalk"}

\* new Vector3(0, capsuleHeight * 0.5, 0), in units of 0.01
CapsuleStart == [x |-> 0, y |-> 125, z |-> 0]

\* a place the physics engine has moved the capsule to
CapsuleAway == [x |-> 100, y |-> 125, z |-> 100]

\* the joystick before its first event: event and data are null
NoJoystick == [type |-> "null", degree |-> 0]

\* no direction offset was computed by the latest update
NoFacing == [branch |-> "none", offset |-> 0]

\* the entries of CharacterController.animations in the order the
\* constructor assigns them, which is the order Object.entries visits
ClipOrder == << "idle", "walk", "crouch", "run", "rumba", "sneakwalk" >>

\* the mass of the capsule's aggregate
CapsuleMass == 20

\* the vertical velocity a jump impulse adds to the capsule, in units of
\* 0.001: JUMP_FORCE / mass
JumpSpeed == (JUMP_FORCE * 1000) \div CapsuleMass

\* linear velocities are in units of 0.001; x and z are taken in the
\* horizontal frame of the camera
Still == [x |-> 0, y |-> 0, z |-> 0]

\* this.oldMove = { x: 0, y: 0, z: 0 }
OldMoveStart == [x |-> 0, y |-> 0, z |-> 0]

\* the camera of initThirdPersonController: position (0, 3, -6) and
\* upperRadiusLimit 10, in units of 0.01
ThirdPersonCamera ==
    [position |-> [x |-> 0, y |-> 300, z |-> -600], upperRadiusLimit |-> 1000]

\* the camera of initSceneCamera: position (0, 2.5, -5), upperRadiusLimit 50
SceneCamera ==
    [position |-> [x |-> 0, y |-> 250, z |-> -500], upperRadiusLimit |-> 5000]

\* the cameras of the earlier iteration (first App of part_000):
\* initThirdPersonController, initSceneCamera and
\* initFirstPersonController (a UniversalCamera has no upperRadiusLimit)
FirstThirdPersonCamera ==
    [position |-> [x |-> 0, y |-> 300, z |-> -600], upperRadiusLimit |-> 500]

FirstSceneCamera ==
    [position |-> [x |-> 0, y |-> 250, z |-> -500], upperRadiusLimit |-> 5000]

FirstPersonCamera == [position |-> [x |-> 0, y |-> 250, z |-> -200]]

\* the height of the eye point above mesh.position: 1.15
EyeHeight == 115

\* upperRadiusLimit = 10 of updateRaycaster
DefaultRadiusLimit == 1000

DISTANCE_FROM_WALL == 80  \* 0.8, in units of 0.01

LerpFactor == 80          \* lerpFactor = 0.8

\* a wall of the alley behind the place the capsule walks to: the part of
\* the plane z = WallZ with x >= WallMinX
WallZ == -494
WallMinX == 50

(***************************************************************************)
(* State.                                                                  *)
(***************************************************************************)
VARIABLES
    allowThrow,          \* App.allowThrow
    throwPower,          \* App.throwPower
    throwAngle,          \* App.throwAngle, in units of 0.5
    laneStage,           \* App.laneStage
    ballPosition,        \* ball.position (the ball mesh is the body's transformNode)
    ballDisablePreStep,  \* ballAggregate.body.disablePreStep
    ballMotionType,      \* motion type of ballAggregate.body
    ballInMotion,        \* the ball body has taken an impulse since it was last frozen
    ballYaw,             \* the yaw of the ball mesh: turns of 0.01 pi made by ball.rotate,
                         \* known until an impulse sets the ball rolling
    vectors,             \* the Vector3 objects of pinPositions: object -> value
    pinPosition,         \* pinMeshes[i].position: the Vector3 object it refers to
    pinRotation,         \* pinMeshes[i].rotationQuaternion, as Euler angles
    pinMotionType,       \* motion type of pinAggregates[i].body
    pinDisablePreStep,   \* pinAggregates[i].body.disablePreStep
    pendingTimers,       \* setTimeout callbacks of setLaneStage not yet run
    afterRender,         \* scene.onAfterRenderObservable: one-shot callbacks, in order
    impulseLog,          \* the applyImpulse calls made by the latest event
    lastEvent,           \* the latest event delivered and the path its handler took
    writeLog,            \* the writes to physics bodies made by the latest event, in order
    isThirdperson,       \* App.isThirdperson
    joystick,            \* Joystick.event.type and Joystick.data.angle, in degrees
    characterVisible,    \* isVisible of the character's meshes
    capsulePosition,     \* Character._capsuleMesh.position
    capsuleDisablePreStep, \* Character.physicsAggregate.body.disablePreStep
    afterPhysics,        \* scene.onAfterPhysicsObservable: one-shot callbacks
    keyStatus,           \* CharacterController.keyStatus
    isActive,            \* CharacterController.isActive
    isDancing,           \* CharacterController.isDancing
    isCrouching,         \* CharacterController.isCrouching
    isMoving,            \* CharacterController.isMoving
    isRunning,           \* CharacterController.isRunning
    moveSpeed,           \* CharacterController.moveSpeed, in units of 0.001
    animations,          \* the animation groups: clip -> started
    facing,              \* the direction offset the latest update turned the mesh by
    jumpLog,             \* the applyImpulse calls on the capsule made by the latest event
    lookedUp,            \* the clips getAnimationGroupByName found; the others are null
    capsuleVelocity,     \* the linear velocity of the capsule's body
    oldMove,             \* CharacterController.oldMove
    camera,              \* App.camera: position and upperRadiusLimit
    earlierControllers,  \* the controllers constructed before the latest one
    updateLog            \* what the controllers' updates of the latest tick read and wrote

vars == << allowThrow, throwPower, throwAngle, laneStage, ballPosition,
           ballDisablePreStep, ballMotionType, ballInMotion, ballYaw, vectors,
           pinPosition, pinRotation, pinMotionType, pinDisablePreStep,
           pendingTimers, afterRender, impulseLog, lastEvent, writeLog,
           isThirdperson, joystick, characterVisible, capsulePosition,
           capsuleDisablePreStep, afterPhysics, keyStatus, isActive,
           isDancing, isCrouching, isMoving, isRunning, moveSpeed,
           animations, facing, jumpLog, lookedUp, capsuleVelocity, oldMove,
           camera, earlierControllers, updateLog >>

\* the lane: the ball, the pins and the throw state of App
laneVars == << allowThrow, throwPower, throwAngle, laneStage, ballPosition,
               ballDisablePreStep, ballMotionType, ballInMotion, ballYaw, vectors,
               pinPosition, pinRotation, pinMotionType, pinDisablePreStep,
               pendingTimers, afterRender >>

characterVars == << characterVisible, capsulePosition, capsuleDisablePreStep,
                    afterPhysics >>

\* the fields of the CharacterController and the animation groups it drives
ctrlVars == << keyStatus, isActive, isDancing, isCrouching, isMoving,
               isRunning, moveSpeed, animations, facing >>

\* the body and the camera the controller drives, and the controllers made
rigVars == << lookedUp, capsuleVelocity, oldMove, camera, earlierControllers >>

\* what a handler of the lane leaves alone: camera mode, joystick,
\* character and controller
OutsideLane ==
    /\ jumpLog' = << >>
    /\ updateLog' = << >>
    /\ UNCHANGED << isThirdperson, joystick, characterVars, ctrlVars, rigVars >>

ballVars == << ballPosition, ballDisablePreStep, ballMotionType, ballInMotion,
              ballYaw >>
pinVars == << vectors, pinPosition, pinRotation, pinMotionType, pinDisablePreStep >>
throwVars == << throwPower, throwAngle >>

\* outcome: "rejected" by the allowThrow guard, "refused" by a lane bound
\* (the break before the nudge), or "done"
Event(name, outcome) == [name |-> name, outcome |-> outcome]

\* the position of pin i: the value of the object its position refers to
PinPos(i) == vectors[pinPosition[i]]

(***************************************************************************)
(* Init: the state when the constructor's promise chain has run            *)
(* createPins, createBall and initControls and has set allowThrow.         *)
(* Physics bodies are created with disablePreStep = true and DYNAMIC       *)
(* (mass > 0).  The chain also makes the character (Character.init starts  *)
(* the Idle group), the third-person camera and the CharacterController,   *)
(* whose constructor calls start().                                        *)
(***************************************************************************)
InitApp(rotations, clips, thirdperson, startCamera) ==
    /\ allowThrow = TRUE
    /\ throwPower = InitialThrowPower
    /\ throwAngle = 0
    /\ laneStage = 0
    /\ ballPosition = BallLaunch
    /\ ballDisablePreStep = TRUE
    /\ ballMotionType = DYNAMIC
    /\ ballInMotion = FALSE
    /\ ballYaw = [known |-> TRUE, turns |-> 0]
    /\ vectors = [o \in Pins |-> RestPositions[o]]
    /\ pinPosition = [i \in Pins |-> pinPositions(i)]
    /\ pinRotation = rotations
    /\ pinMotionType = [i \in Pins |-> DYNAMIC]
    /\ pinDisablePreStep = [i \in Pins |-> TRUE]
    /\ pendingTimers = 0
    /\ afterRender = << >>
    /\ impulseLog = << >>
    /\ lastEvent = Event("init", "done")
    /\ writeLog = << >>
    /\ isThirdperson = thirdperson
    /\ joystick = NoJoystick
    /\ characterVisible = TRUE
    /\ capsulePosition = CapsuleStart
    /\ capsuleDisablePreStep = TRUE
    /\ afterPhysics = << >>
    /\ keyStatus = [k \in StatusKeys |-> FALSE]
    /\ isActive = TRUE
    /\ isDancing = FALSE
    /\ isCrouching = FALSE
    /\ isMoving = FALSE
    /\ isRunning = FALSE
    /\ moveSpeed = WALK_SPEED
    /\ animations = [c \in Clips |-> c = "idle" /\ c \in clips]
    /\ facing = NoFacing
    /\ jumpLog = << >>
    /\ lookedUp = clips
    /\ capsuleVelocity = Still
    /\ oldMove = OldMoveStart
    /\ camera = startCamera
    /\ earlierControllers = << >>
    /\ updateLog = << >>

\* the final App: isThirdperson is set by initThirdPersonController
InitWith(rotations, clips) ==
    InitApp(rotations, clips, TRUE, ThirdPersonCamera)

\* the pins as createPins leaves them and the character asset with every
\* clip the controller looks up
Init == InitWith([i \in Pins |-> UprightRotation], Clips)

\* a character asset that lacks one of the clips: getAnimationGroupByName
\* returns null for it
InitMissing ==
    \E c \in Clips : InitWith([i \in Pins |-> UprightRotation], Clips \ {c})

\* the first App of part_000: the same chain, with thirdperson left false
\* and the camera of its initThirdPersonController
InitFirst ==
    InitApp([i \in Pins |-> UprightRotation], Clips, FALSE,
            FirstThirdPersonCamera)

\* the same state with the first pin at rest in any of the sampled
\* rotations
InitTilted ==
    \E rotation \in RotationSamples :
        InitWith([i \in Pins |-> IF i = 1 THEN rotation ELSE UprightRotation],
                 Clips)

(***************************************************************************)
(* Throwing: the body of case "" of the keyboard handler and of            *)
(* Hammer.DIRECTION_UP of the swipe handler.                               *)
(***************************************************************************)

applyImpulseStraight ==
    /\ impulseLog' = << [vector |-> [x |-> 0, y |-> 0, z |-> throwPower],
                         at |-> ballPosition,
                         motionType |-> ballMotionType] >>
    /\ ballInMotion' = (ballInMotion \/ ballMotionType = DYNAMIC)

\* body.applyImpulse(new Vector3(throwAngle, 0, throwPower),
\*                   ball.getAbsolutePosition())
\* The engine applies an impulse to a DYNAMIC body only.
applyImpulse ==
    /\ impulseLog' = << [vector |-> [x |-> throwAngle, y |-> 0, z |-> throwPower],
                         at |-> ballPosition,
                         motionType |-> ballMotionType] >>
    /\ ballInMotion' = (ballInMotion \/ ballMotionType = DYNAMIC)

setLaneStageNoTimer ==
    /\ allowThrow' = FALSE
    /\ pendingTimers' = pendingTimers

setLaneStageOpen ==
    /\ allowThrow' = allowThrow
    /\ pendingTimers' = pendingTimers + 1

\* setLaneStage(): clears allowThrow and starts the 6000 ms timer
setLaneStage ==
    /\ allowThrow' = FALSE
    /\ pendingTimers' = pendingTimers + 1

\* an impulse on a DYNAMIC ball sets it rolling, and its yaw is then
\* whatever the engine makes it
rolled(yaw) ==
    IF ballMotionType = DYNAMIC THEN [known |-> FALSE, turns |-> 0] ELSE yaw

Throw ==
    /\ pendingTimers < MaxTimers
    /\ applyImpulse
    /\ setLaneStage
    /\ writeLog' = << >>
    /\ OutsideLane
    /\ ballYaw' = rolled(ballYaw)
    /\ UNCHANGED << throwVars, laneStage, ballPosition, ballDisablePreStep,
                    ballMotionType, pinVars, afterRender >>

\* the return of "if (!this.allowThrow) return;"
Rejected(name) ==
    /\ lastEvent' = Event(name, "rejected")
    /\ impulseLog' = << >>
    /\ writeLog' = << >>
    /\ OutsideLane
    /\ UNCHANGED << allowThrow, throwVars, laneStage, ballVars, pinVars,
                    pendingTimers, afterRender >>

(***************************************************************************)
(* Keyboard handler, KEYDOWN, by case of key.toLowerCase().trim().         *)
(***************************************************************************)
KeyThrow ==
    IF allowThrow
    THEN /\ Throw
         /\ lastEvent' = Event("space", "done")
    ELSE Rejected("space")

AngleUpStepFree(angle) == 1

\* this.throwAngle >= 5 ? 0 : 0.5
AngleUpStep(angle) == IF angle >= AngleMax THEN 0 ELSE 1

\* this.throwAngle <= -5 ? 0 : 0.5
AngleDownStep(angle) == IF angle <= AngleMin THEN 0 ELSE 1

\* the rest of cases "w" and "s": open the ball body to the rotation of the
\* mesh and close it again after the next render
\* ball.rotate(Vector3.Up(), turn * Math.PI * 0.01)
rotate(yaw, turn) ==
    IF yaw.known THEN [yaw EXCEPT !.turns = @ + turn] ELSE yaw

AngleFeedback(turn) ==
    /\ Len(afterRender) < MaxCallbacks
    /\ Abs(rotate(ballYaw, turn).turns) <= AngleMax + MaxYaw
    /\ ballYaw' = rotate(ballYaw, turn)
    /\ ballDisablePreStep' = FALSE
    /\ afterRender' = Append(afterRender, "angle")
    /\ impulseLog' = << >>
    /\ writeLog' = << >>
    /\ OutsideLane
    /\ UNCHANGED << allowThrow, throwPower, laneStage, ballPosition,
                    ballMotionType, ballInMotion, pinVars, pendingTimers >>

AngleUp(key) ==
    IF allowThrow
    THEN /\ throwAngle' = throwAngle + AngleUpStep(throwAngle)
         /\ AngleFeedback(-1)
         /\ lastEvent' = Event(key, "done")
    ELSE Rejected(key)

AngleDown(key) ==
    IF allowThrow
    THEN /\ throwAngle' = throwAngle - AngleDownStep(throwAngle)
         /\ AngleFeedback(1)
         /\ lastEvent' = Event(key, "done")
    ELSE Rejected(key)

\* case "w": case "arrowup":
KeyAngleUp == AngleUp("w")

\* case "s": case "arrowdown":
KeyAngleDown == AngleDown("s")

PastLeftBoundNever(x) == FALSE

\* ball.position.x > 1.8
PastLeftBound(x) == FGt(x, F18)

\* ball.position.x < -1.8
PastRightBound(x) == FLt(x, FNeg(F18))

\* "if (x > 1.8) break; x += 0.05;"
NudgeLeft(name) ==
    /\ IF PastLeftBound(ballPosition.x)
       THEN /\ ballPosition' = ballPosition
            /\ lastEvent' = Event(name, "refused")
       ELSE /\ ballPosition' = [ballPosition EXCEPT !.x = FAdd(@, F005)]
            /\ lastEvent' = Event(name, "done")
    /\ impulseLog' = << >>
    /\ writeLog' = << >>
    /\ OutsideLane
    /\ UNCHANGED << allowThrow, throwVars, laneStage, ballDisablePreStep,
                    ballMotionType, ballInMotion, ballYaw, pinVars,
                    pendingTimers, afterRender >>

\* "if (x < -1.8) break; x -= 0.05;"
NudgeRight(name) ==
    /\ IF PastRightBound(ballPosition.x)
       THEN /\ ballPosition' = ballPosition
            /\ lastEvent' = Event(name, "refused")
       ELSE /\ ballPosition' = [ballPosition EXCEPT !.x = FSub(@, F005)]
            /\ lastEvent' = Event(name, "done")
    /\ impulseLog' = << >>
    /\ writeLog' = << >>
    /\ OutsideLane
    /\ UNCHANGED << allowThrow, throwVars, laneStage, ballDisablePreStep,
                    ballMotionType, ballInMotion, ballYaw, pinVars,
                    pendingTimers, afterRender >>

KeyLeftOpen == NudgeLeft("a")

\* case "a": case "arrowleft":
KeyLeft ==
    IF allowThrow
    THEN NudgeLeft("a")
    ELSE Rejected("a")

\* case "d": case "arrowright":
KeyRight ==
    IF allowThrow
    THEN NudgeRight("d")
    ELSE Rejected("d")

(***************************************************************************)
(* Swipe handler of the Hammer manager.                                    *)
(***************************************************************************)
SwipeUp ==
    IF allowThrow
    THEN /\ Throw
         /\ lastEvent' = Event("swipeup", "done")
    ELSE Rejected("swipeup")

SwipeLeftMirrored ==
    IF allowThrow
    THEN NudgeRight("swipeleft")
    ELSE Rejected("swipeleft")

\* Hammer.DIRECTION_LEFT
SwipeLeft ==
    IF allowThrow
    THEN NudgeLeft("swipeleft")
    ELSE Rejected("swipeleft")

SwipeRight ==
    IF allowThrow
    THEN NudgeRight("swiperight")
    ELSE Rejected("swiperight")

\* Hammer.DIRECTION_DOWN has no case
SwipeDown ==
    IF allowThrow
    THEN /\ lastEvent' = Event("swipedown", "done")
         /\ impulseLog' = << >>
         /\ writeLog' = << >>
         /\ OutsideLane
         /\ UNCHANGED << allowThrow, throwVars, laneStage, ballVars, pinVars,
                         pendingTimers, afterRender >>
    ELSE Rejected("swipedown")

(***************************************************************************)
(* The callback that setLaneStage hands to setTimeout.                     *)
(***************************************************************************)

\* the physics bodies, and a write to a field of a body or of its node
BallBody == [kind |-> "ball", index |-> 0]
PinBody(i) == [kind |-> "pin", index |-> i]
CapsuleBody == [kind |-> "capsule", index |-> 0]
Write(body, field) == [body |-> body, field |-> field]

\* the pins that isPinUp reports as not upright
FallenPins == {i \in Pins : ~isPinUp(pinRotation[i])}

\* countStandingPins(): the number of pins that isPinUp reports as upright
countStandingPins == Cardinality(Pins \ FallenPins)

ResetBallKeepX ==
    /\ ballDisablePreStep' = FALSE
    /\ ballPosition' = [BallLaunch EXCEPT !.x = ballPosition.x]
    /\ ballMotionType' = STATIC
    /\ ballInMotion' = FALSE
    /\ UNCHANGED ballYaw

\* both branches: open the ball body, put the ball on the launch point and
\* freeze it
ResetBall ==
    /\ ballDisablePreStep' = FALSE
    /\ ballPosition' = BallLaunch
    /\ ballMotionType' = STATIC
    /\ ballInMotion' = FALSE
    /\ UNCHANGED ballYaw

BallWritesTeleportFirst ==
    << Write(BallBody, "position"),
       Write(BallBody, "disablePreStep=false"),
       Write(BallBody, "motionType=STATIC") >>

\* the writes of ResetBall in the order of the code
BallWrites ==
    << Write(BallBody, "disablePreStep=false"),
       Write(BallBody, "position"),
       Write(BallBody, "motionType=STATIC") >>

\* the writes of the laneStage === 0 branch to the fallen pins i .. NumPins,
\* in the order of the forEach and of the statements
RECURSIVE HideWrites(_)
HideWrites(i) ==
    IF i > NumPins THEN << >>
    ELSE (IF i \in FallenPins
          THEN << Write(PinBody(i), "motionType=STATIC"),
                  Write(PinBody(i), "disablePreStep=false"),
                  Write(PinBody(i), "position"),
                  Write(PinBody(i), "rotationQuaternion") >>
          ELSE << >>) \o HideWrites(i + 1)

\* the writes of the else branch to the pins i .. NumPins
RECURSIVE ResetWrites(_)
ResetWrites(i) ==
    IF i > NumPins THEN << >>
    ELSE << Write(PinBody(i), "motionType=STATIC"),
            Write(PinBody(i), "disablePreStep=false"),
            Write(PinBody(i), "rotationQuaternion"),
            Write(PinBody(i), "position") >> \o ResetWrites(i + 1)

HideAllPins ==
    /\ pinMotionType' = [i \in Pins |-> STATIC]
    /\ pinDisablePreStep' = [i \in Pins |-> FALSE]
    /\ vectors' = [o \in DOMAIN vectors |->
            IF \E i \in Pins : pinPosition[i] = o
            THEN [vectors[o] EXCEPT !.y = PinHiddenY]
            ELSE vectors[o]]
    /\ pinRotation' = [i \in Pins |-> UprightRotation]
    /\ UNCHANGED pinPosition

\* laneStage === 0: freeze the fallen pins, lift them to y = 1.5 by writing
\* the y of the Vector3 their position refers to, and set them upright
HideFallenPins ==
    /\ pinMotionType' = [i \in Pins |->
            IF i \in FallenPins THEN STATIC ELSE pinMotionType[i]]
    /\ pinDisablePreStep' = [i \in Pins |->
            IF i \in FallenPins THEN FALSE ELSE pinDisablePreStep[i]]
    /\ vectors' = [o \in DOMAIN vectors |->
            IF \E i \in FallenPins : pinPosition[i] = o
            THEN [vectors[o] EXCEPT !.y = PinHiddenY]
            ELSE vectors[o]]
    /\ pinRotation' = [i \in Pins |->
            IF i \in FallenPins THEN UprightRotation ELSE pinRotation[i]]
    /\ UNCHANGED pinPosition

\* else branch: freeze every pin, set it upright and make its position
\* refer to the Vector3 of its entry of pinPositions
ResetPins ==
    /\ pinMotionType' = [i \in Pins |-> STATIC]
    /\ pinDisablePreStep' = [i \in Pins |-> FALSE]
    /\ pinRotation' = [i \in Pins |-> UprightRotation]
    /\ pinPosition' = [i \in Pins |-> pinPositions(i)]
    /\ UNCHANGED vectors

NextStageStuck(stage) == stage

NextStage(stage) == IF stage = 0 THEN 1 ELSE 0

TimerFire ==
    /\ pendingTimers > 0
    /\ Len(afterRender) < MaxCallbacks
    /\ pendingTimers' = pendingTimers - 1
    /\ laneStage' = NextStage(laneStage)
    /\ ResetBall
    /\ IF laneStage = 0
       THEN /\ HideFallenPins
            /\ afterRender' = Append(afterRender, "stage0")
       ELSE /\ ResetPins
            /\ afterRender' = Append(afterRender, "stage1")
    /\ allowThrow' = TRUE
    /\ impulseLog' = << >>
    /\ writeLog' = BallWrites \o (IF laneStage = 0 THEN HideWrites(1)
                                                    ELSE ResetWrites(1))
    /\ lastEvent' = Event("timer", "done")
    /\ OutsideLane
    /\ UNCHANGED throwVars

(***************************************************************************)
(* Character: show() and hide().                                           *)
(***************************************************************************)
CharacterShow == characterVisible' = TRUE

\* the writes of hide() to the capsule in the order of the code
CharacterHideWrites ==
    << Write(CapsuleBody, "disablePreStep=false"),
       Write(CapsuleBody, "position") >>

\* hide(): hide the meshes, open the capsule body, put the capsule on its
\* start point and close the body again after the next physics step
CharacterHide ==
    /\ characterVisible' = FALSE
    /\ capsuleDisablePreStep' = FALSE
    /\ capsulePosition' = CapsuleStart
    /\ afterPhysics' = Append(afterPhysics, "capsule")
    /\ writeLog' = CharacterHideWrites

(***************************************************************************)
(* CharacterController.  A key event runs the action registered for the    *)
(* ActionManager trigger and the observer of onKeyboardObservable; key is  *)
(* e.sourceEvent.key.toLowerCase().  stop() disposes the action manager.   *)
(* The observer that App.initControls adds for the same keys is the lane   *)
(* actions above: the two sets of handlers write disjoint variables, and   *)
(* each action here is the controller's share of the event.                *)
(***************************************************************************)
\* the keys delivered to the controller
ControllerKeys == {" ", "shift", "control", "g", "w", "arrowup", "a",
                   "arrowleft", "s", "arrowdown", "d", "arrowright"}

DirectionKeys == {"w", "arrowup", "a", "arrowleft", "s", "arrowdown",
                  "d", "arrowright"}

KeyDownName(key) == "keydown " \o key
KeyUpName(key) == "keyup " \o key

\* the state of a controller when its constructor returns
NewController ==
    /\ keyStatus' = [k \in StatusKeys |-> FALSE]
    /\ isActive' = TRUE
    /\ isDancing' = FALSE
    /\ isCrouching' = FALSE
    /\ isMoving' = FALSE
    /\ isRunning' = FALSE
    /\ moveSpeed' = WALK_SPEED
    /\ oldMove' = OldMoveStart

\* a controller as the callbacks of start() see it: its isActive flag and
\* whether its observers are still on onBeforeRenderObservable and
\* onKeyboardObservable
Subscribed(active) ==
    [isActive |-> active, onBeforeRender |-> TRUE, onKeyboard |-> TRUE]

\* every controller constructed, in the order of construction; the latest
\* one is the last
Controllers == Append(earlierControllers, Subscribed(isActive))

\* the controllers whose observer of the keyboard gets past the guard of
\* jump(), and those whose observer of the render loop gets past its guard
ActiveOnKeyboard ==
    SelectSeq([k \in 1 .. Len(Controllers) |-> k],
              LAMBDA k : Controllers[k].onKeyboard /\ Controllers[k].isActive)

ActiveOnBeforeRender ==
    SelectSeq([k \in 1 .. Len(Controllers) |-> k],
              LAMBDA k : Controllers[k].onBeforeRender /\ Controllers[k].isActive)

\* toggleRun()
toggleRun(running) ==
    [isRunning |-> ~running,
     moveSpeed |-> IF ~running THEN RUN_SPEED ELSE WALK_SPEED]

\* the action of ActionManager.OnKeyDownTrigger
OnKeyDownTrigger(key) ==
    LET speed1 == IF key = "shift" THEN CROUCH_SPEED ELSE moveSpeed
        crouching1 == IF key = "shift" THEN TRUE ELSE isCrouching
        dancing1 == IF key = "shift" THEN FALSE ELSE isDancing
        run == toggleRun(isRunning)
    IN  /\ isCrouching' = crouching1
        /\ isRunning' = IF key = "control" THEN run.isRunning ELSE isRunning
        /\ moveSpeed' = IF key = "control" THEN run.moveSpeed ELSE speed1
        /\ isDancing' = IF key = "g" THEN ~dancing1 ELSE dancing1
        /\ keyStatus' = IF key \in StatusKeys
                        THEN [keyStatus EXCEPT ![key] = TRUE]
                        ELSE keyStatus

\* the action of ActionManager.OnKeyUpTrigger
OnKeyUpTrigger(key) ==
    /\ isCrouching' = IF key = "shift" THEN FALSE ELSE isCrouching
    /\ moveSpeed' = IF key = "shift"
                    THEN (IF ~isRunning THEN WALK_SPEED ELSE RUN_SPEED)
                    ELSE moveSpeed
    /\ keyStatus' = IF key \in StatusKeys
                    THEN [keyStatus EXCEPT ![key] = FALSE]
                    ELSE keyStatus

\* the observer of onKeyboardObservable on KEYDOWN: case "" of
\* key.toLowerCase().trim() calls jump(), which returns when the controller
\* is not active and applies the impulse otherwise
jump(key) ==
    IF key = " "
    THEN [j \in 1 .. Len(ActiveOnKeyboard) |->
             [vector |-> [x |-> 0, y |-> JUMP_FORCE, z |-> 0],
              at |-> capsulePosition,
              by |-> ActiveOnKeyboard[j]]]
    ELSE << >>

\* what a handler of the controller leaves alone
OutsideController ==
    /\ impulseLog' = << >>
    /\ writeLog' = << >>
    /\ updateLog' = << >>
    /\ UNCHANGED << laneVars, isThirdperson, characterVars, lookedUp, oldMove,
                    camera, earlierControllers >>

\* a key-down event; the browser repeats it while the key is held
KeyDown(key) ==
    /\ IF isActive
       THEN /\ OnKeyDownTrigger(key)
            /\ lastEvent' = Event(KeyDownName(key), "done")
       ELSE /\ UNCHANGED << isCrouching, isRunning, moveSpeed, isDancing,
                            keyStatus >>
            /\ lastEvent' = Event(KeyDownName(key), "rejected")
    /\ capsuleVelocity.y + Len(jump(key)) * JumpSpeed <= MaxJumps * JumpSpeed
    /\ jumpLog' = jump(key)
    /\ capsuleVelocity' =
           [capsuleVelocity EXCEPT !.y = @ + Len(jump(key)) * JumpSpeed]
    /\ OutsideController
    /\ UNCHANGED << joystick, isActive, isMoving, animations, facing >>

\* a key-up event
KeyUp(key) ==
    /\ IF isActive
       THEN /\ OnKeyUpTrigger(key)
            /\ lastEvent' = Event(KeyUpName(key), "done")
       ELSE /\ UNCHANGED << isCrouching, moveSpeed, keyStatus >>
            /\ lastEvent' = Event(KeyUpName(key), "rejected")
    /\ jumpLog' = << >>
    /\ OutsideController
    /\ UNCHANGED << joystick, isActive, isMoving, isRunning, isDancing,
                    animations, facing, capsuleVelocity >>

\* the angles a move event of the joystick reports, in degrees
JoystickDegrees == {0, 90}

\* handleJoystickMove, registered for "start", "move" and "end"
JoystickEvent(type, degree) ==
    /\ joystick' = [type |-> type, degree |-> degree]
    /\ lastEvent' = Event("joystick " \o type, "done")
    /\ jumpLog' = << >>
    /\ OutsideController
    /\ UNCHANGED << ctrlVars, capsuleVelocity >>

calculateDirectionOffsetLettersOnly(status) ==
    IF status["w"]
    THEN IF status["d"] THEN 45
         ELSE IF status["a"] THEN -45
         ELSE 0
    ELSE IF status["s"]
    THEN IF status["d"] THEN 45 + 90
         ELSE IF status["a"] THEN -45 - 90
         ELSE 180
    ELSE IF status["d"] THEN 90
    ELSE IF status["a"] THEN -90
    ELSE 0

\* calculateDirectionOffset(), in degrees
calculateDirectionOffset(status) ==
    IF status["w"] \/ status["arrowup"]
    THEN IF status["d"] \/ status["arrowright"] THEN 45
         ELSE IF status["a"] \/ status["arrowleft"] THEN -45
         ELSE 0
    ELSE IF status["s"] \/ status["arrowdown"]
    THEN IF status["d"] \/ status["arrowright"] THEN 45 + 90
         ELSE IF status["a"] \/ status["arrowleft"] THEN -45 - 90
         ELSE 180
    ELSE IF status["d"] \/ status["arrowright"] THEN 90
    ELSE IF status["a"] \/ status["arrowleft"] THEN -90
    ELSE 0

\* updateCharacterAnimation(): the name it passes to playAnimation
updateCharacterAnimation(moving, crouching, running, dancing) ==
    IF moving
    THEN IF crouching THEN "sneakwalk"
         ELSE IF ~running THEN "walk"
         ELSE "run"
    ELSE IF dancing THEN "rumba"
    ELSE IF crouching THEN "crouch"
    ELSE "idle"

playAnimationStartOnly(name, groups) ==
    [c \in DOMAIN groups |-> IF c = name THEN TRUE ELSE groups[c]]

\* playAnimation(name): start the group of that name, stop every other one
playAnimation(name, groups) ==
    [c \in DOMAIN groups |-> IF c = name THEN TRUE ELSE FALSE]

\* the condition of the joystick branch of updateCharacter:
\* getEvent()?.type === "move" && getData()?.angle?.radian
JoystickMoves == joystick.type = "move" /\ joystick.degree # 0

\* the condition of the keyboard branch
DirectionPressed == \E k \in DirectionKeys : keyStatus[k]

\* updateCharacter(): the value it leaves in isDancing
updateCharacter(moving) == IF moving THEN FALSE ELSE isDancing

\* the keyboard branch: frontVector - sideVector, before normalize()
keyboardDirection(status) ==
    LET forward == status["w"] \/ status["arrowup"]
        backward == status["s"] \/ status["arrowdown"]
        left == status["a"] \/ status["arrowleft"]
        right == status["d"] \/ status["arrowright"]
        front == IF forward THEN 1 ELSE IF backward THEN -1 ELSE 0
        side == IF left THEN 1 ELSE IF right THEN -1 ELSE 0
    IN  [x |-> 0 - side, y |-> 0, z |-> front]

\* the joystick branch: (vector.x, 0, vector.y) of the unit vector of the
\* angle
joystickDirection(degree) ==
    IF degree = 90 THEN [x |-> 0, y |-> 0, z |-> 1]
    ELSE [x |-> 1, y |-> 0, z |-> 0]

\* normalize() and scaleInPlace(moveSpeed * 100): a diagonal has the
\* components 0.707 of the length
scaleInPlace(direction, speed) ==
    LET length == IF direction.x # 0 /\ direction.z # 0
                  THEN (speed * 100 * 707) \div 1000
                  ELSE speed * 100
    IN  [x |-> direction.x * length, y |-> 0, z |-> direction.z * length]

withGroundedY(direction, vel) == direction

\* moveDirection.y = vel.y
withBodyY(direction, vel) == [direction EXCEPT !.y = vel.y]

\* the argument of setLinearVelocity, from the velocity vel that
\* getLinearVelocity returned
setLinearVelocity(vel) ==
    IF JoystickMoves
    THEN withBodyY(scaleInPlace(joystickDirection(joystick.degree), moveSpeed), vel)
    ELSE IF DirectionPressed
    THEN withBodyY(scaleInPlace(keyboardDirection(keyStatus), moveSpeed), vel)
    ELSE vel

Plus(a, b) == [x |-> a.x + b.x, y |-> a.y + b.y, z |-> a.z + b.z]
Minus(a, b) == [x |-> a.x - b.x, y |-> a.y - b.y, z |-> a.z - b.z]

\* a.scale(pct / 100), rounded down to the unit
Scale(a, pct) ==
    [x |-> (a.x * pct) \div 100, y |-> (a.y * pct) \div 100,
     z |-> (a.z * pct) \div 100]

\* the largest r in lo .. hi with r * r <= n
RECURSIVE SqrtBetween(_, _, _)
SqrtBetween(n, lo, hi) ==
    IF lo = hi THEN lo
    ELSE LET mid == (lo + hi + 1) \div 2
         IN  IF mid * mid <= n THEN SqrtBetween(n, mid, hi)
             ELSE SqrtBetween(n, lo, mid - 1)

\* Vector3.Distance, rounded down to the unit
Distance(a, b) ==
    LET d == Minus(a, b)
    IN  SqrtBetween(d.x * d.x + d.y * d.y + d.z * d.z, 0, 2 * DefaultRadiusLimit)

\* Vector3.Lerp(a, b, pct / 100)
Lerp(a, b, pct) == Plus(a, Scale(Minus(b, a), pct))

\* the eye point: (x, y + 1.15, z) of mesh.position
Eye(position) == [position EXCEPT !.y = @ + EyeHeight]

NoHit == [hasHit |-> FALSE, hitPointWorld |-> [x |-> 0, y |-> 0, z |-> 0]]

\* raycastToRef(from, to): nothing is on the segment, or the wall is and
\* the ray stops where it meets it
raycastToRef(from, to) ==
    LET cross == Plus(from, [x |-> ((to.x - from.x) * (from.z - WallZ)) \div (from.z - to.z),
                             y |-> ((to.y - from.y) * (from.z - WallZ)) \div (from.z - to.z),
                             z |-> WallZ - from.z])
    IN  IF from.z > WallZ /\ to.z < WallZ /\ cross.x >= WallMinX
        THEN {NoHit, [hasHit |-> TRUE, hitPointWorld |-> cross]}
        ELSE {NoHit}

updateRaycasterKeepsLimit(limit, result, target) ==
    IF result.hasHit THEN Distance(result.hitPointWorld, target) ELSE limit

\* updateRaycaster(): the value it leaves in upperRadiusLimit
updateRaycaster(limit, result, target) ==
    IF result.hasHit
    THEN Distance(result.hitPointWorld, target)
    ELSE DefaultRadiusLimit

\* updateRaycaster(): the value it leaves in camera.position
\* direction.scale(DISTANCE_FROM_WALL * distance) is
\* (hitPoint - position) * DISTANCE_FROM_WALL
pulledPosition(position, result) ==
    IF result.hasHit
    THEN LET hitPoint == result.hitPointWorld
             newPosition == Minus(hitPoint,
                                  Scale(Minus(hitPoint, position), DISTANCE_FROM_WALL))
         IN  Lerp(position, newPosition, LerpFactor)
    ELSE position

\* updateCamera(): the camera after the translation by
\* mesh.position - oldMove and updateRaycaster()
updateCamera(position, result) ==
    LET moved == Plus(camera.position, Minus(position, oldMove))
    IN  [position |-> pulledPosition(moved, result),
         upperRadiusLimit |->
             updateRaycaster(camera.upperRadiusLimit, result, Eye(position))]

\* the entries of animations that forEach visits before it meets a null
\* group, on which start() or stop() throws a TypeError
VisitedClips ==
    {ClipOrder[k] : k \in {n \in 1 .. Len(ClipOrder) :
                              \A j \in 1 .. n : ClipOrder[j] \in lookedUp}}

\* playAnimation meets a null group
playAnimationThrows == lookedUp # Clips

\* an observer of an earlier controller that gets past its guard issues
\* the velocity it reads
EarlierUpdates(vel) ==
    IF earlierControllers = << >> THEN << >>
    ELSE LET earlier == SelectSeq(ActiveOnBeforeRender,
                                  LAMBDA k : k <= Len(earlierControllers))
         IN  [j \in 1 .. Len(earlier) |->
                 [by |-> earlier[j], read |-> vel, issued |-> vel,
                  result |-> NoHit]]

\* the observer of onBeforeRenderObservable: updateCharacter(),
\* updateCamera(), updateCharacterAnimation().  vel is the velocity the
\* physics step left; mesh.position is the capsule's position after the
\* step (the observer of Character.init copies it first)
ControllerUpdate(vel) ==
    IF ~isActive
    THEN /\ UNCHANGED << isMoving, isDancing, facing, animations, oldMove,
                         camera >>
         /\ capsuleVelocity' = vel
         /\ updateLog' = EarlierUpdates(vel)
    ELSE LET moving == JoystickMoves \/ DirectionPressed
             dancing == updateCharacter(moving)
             name == updateCharacterAnimation(moving, isCrouching, isRunning, dancing)
             position == capsulePosition'
         IN  /\ isMoving' = moving
             /\ isDancing' = dancing
             /\ facing' =
                   IF JoystickMoves
                   THEN [branch |-> "joystick", offset |-> 90 - joystick.degree]
                   ELSE IF DirectionPressed
                   THEN [branch |-> "keys",
                         offset |-> calculateDirectionOffset(keyStatus)]
                   ELSE NoFacing
             /\ capsuleVelocity' = setLinearVelocity(vel)
             /\ oldMove' = position
             /\ \E result \in raycastToRef(
                       Eye(position),
                       Plus(camera.position, Minus(position, oldMove))) :
                    /\ camera' = updateCamera(position, result)
                    /\ updateLog' = Append(EarlierUpdates(vel),
                           [by |-> Len(Controllers), read |-> vel,
                            issued |-> setLinearVelocity(vel), result |-> result])
             /\ animations' =
                   IF playAnimationThrows
                   THEN [c \in Clips |->
                           IF c \in VisitedClips
                           THEN playAnimation(name, animations)[c]
                           ELSE animations[c]]
                   ELSE playAnimation(name, animations)

(***************************************************************************)
(* One key-down event of the space key: scene.onKeyboardObservable         *)
(* notifies the observer of App.initControls (case "": the throw) and the  *)
(* observer of every controller (case "": jump()), and the action manager  *)
(* of the controller in use runs its OnKeyDownTrigger.                     *)
(***************************************************************************)
SpaceKeyDown ==
    /\ capsuleVelocity.y + Len(jump(" ")) * JumpSpeed <= MaxJumps * JumpSpeed
    /\ IF allowThrow
       THEN /\ pendingTimers < MaxTimers
            /\ applyImpulse
            /\ ballYaw' = rolled(ballYaw)
            /\ setLaneStage
       ELSE /\ impulseLog' = << >>
            /\ UNCHANGED << allowThrow, pendingTimers, ballInMotion,
                            ballYaw >>
    /\ IF isActive
       THEN OnKeyDownTrigger(" ")
       ELSE UNCHANGED << isCrouching, isRunning, moveSpeed, isDancing,
                         keyStatus >>
    /\ jumpLog' = jump(" ")
    /\ capsuleVelocity' =
           [capsuleVelocity EXCEPT !.y = @ + Len(jump(" ")) * JumpSpeed]
    /\ lastEvent' = Event("space", IF allowThrow \/ jump(" ") # << >>
                                   THEN "done"
                                   ELSE "rejected")
    /\ writeLog' = << >>
    /\ updateLog' = << >>
    /\ UNCHANGED << throwVars, laneStage, ballPosition, ballDisablePreStep,
                    ballMotionType, pinVars, afterRender, isThirdperson,
                    joystick, characterVars, isActive, isMoving, animations,
                    facing, lookedUp, oldMove, camera, earlierControllers >>

(***************************************************************************)
(* The camera keys of App.initControls.                                    *)
(***************************************************************************)
\* case "1": stopCharacterController(), character.hide(), initSceneCamera()
stopKeepsActive == isActive' = isActive

\* stop(): clears isActive and disposes the action manager; the observers
\* start() added stay on their observables
stop == isActive' = FALSE

KeyOne ==
    /\ Len(afterPhysics) < MaxCallbacks
    /\ stop
    /\ CharacterHide
    /\ camera' = SceneCamera
    /\ isThirdperson' = FALSE
    /\ lastEvent' = Event("1", "done")
    /\ impulseLog' = << >>
    /\ jumpLog' = << >>
    /\ updateLog' = << >>
    /\ UNCHANGED << laneVars, joystick, keyStatus, isDancing, isCrouching,
                    isMoving, isRunning, moveSpeed, animations, facing,
                    lookedUp, capsuleVelocity, oldMove, earlierControllers >>

\* case "2": returns in third-person mode; otherwise
\* initThirdPersonController(), character.show() and a new controller
\* (App.characterController is null whenever isThirdperson is false)
KeyTwo ==
    /\ isThirdperson \/ Len(earlierControllers) < MaxControllers
    /\ IF isThirdperson
       THEN /\ UNCHANGED << isThirdperson, characterVisible, keyStatus,
                            isActive, isDancing, isCrouching, isMoving,
                            isRunning, moveSpeed, oldMove, camera,
                            earlierControllers >>
            /\ lastEvent' = Event("2", "rejected")
       ELSE /\ isThirdperson' = TRUE
            /\ camera' = ThirdPersonCamera
            /\ CharacterShow
            /\ earlierControllers' = Controllers
            /\ NewController
            /\ lastEvent' = Event("2", "done")
    /\ impulseLog' = << >>
    /\ writeLog' = << >>
    /\ jumpLog' = << >>
    /\ updateLog' = << >>
    /\ UNCHANGED << laneVars, joystick, capsulePosition, capsuleDisablePreStep,
                    afterPhysics, animations, facing, lookedUp,
                    capsuleVelocity >>

(***************************************************************************)
(* The earlier iteration: the camera keys 1 to 4 of the first App of       *)
(* part_000 with the CharacterController of part_002.  Its stop() also     *)
(* clears scene.onBeforeRenderObservable, which removes the observers of   *)
(* every controller.  App.characterController is either null or a          *)
(* controller that was never stopped, so isActive stands for "the field    *)
(* refers to a controller"; earlierControllers holds the controllers the   *)
(* field no longer refers to.  No movement key is down, so an update       *)
(* leaves the mesh where it is, and updateLog records which controllers    *)
(* got past the isActive guard of updateCharacter and updateCamera.        *)
(***************************************************************************)
\* every controller constructed so far
FirstControllers ==
    IF isActive
    THEN Append(earlierControllers, Subscribed(TRUE))
    ELSE earlierControllers

\* characterController?.dispose(), that is stop(), and
\* characterController = null
disposeCharacterController ==
    /\ earlierControllers' =
           IF isActive
           THEN [k \in 1 .. Len(FirstControllers) |->
                   IF k = Len(FirstControllers)
                   THEN [isActive |-> FALSE, onBeforeRender |-> FALSE,
                         onKeyboard |-> TRUE]
                   ELSE [FirstControllers[k] EXCEPT !.onBeforeRender = FALSE]]
           ELSE earlierControllers
    /\ isActive' = FALSE

\* what the camera keys leave alone
OutsideCameraKeys ==
    /\ impulseLog' = << >>
    /\ writeLog' = << >>
    /\ jumpLog' = << >>
    /\ updateLog' = << >>
    /\ UNCHANGED << laneVars, isThirdperson, joystick, capsulePosition,
                    capsuleDisablePreStep, afterPhysics, isDancing,
                    isCrouching, isMoving, isRunning, moveSpeed, animations,
                    facing, lookedUp, capsuleVelocity >>

\* case "1": initSceneCamera(), which makes the character if there is
\* none, and disposeCharacterController()
FirstKeyOne ==
    /\ camera' = FirstSceneCamera
    /\ characterVisible' = TRUE
    /\ disposeCharacterController
    /\ lastEvent' = Event("1", "done")
    /\ OutsideCameraKeys
    /\ UNCHANGED << keyStatus, oldMove >>

\* cases "2" and "3": disposeCharacterController() and
\* initFirstPersonController(), which disposes the character
FirstPersonKeys == {"2", "3"}

FirstKeyFirstPerson(key) ==
    /\ disposeCharacterController
    /\ camera' = FirstPersonCamera
    /\ characterVisible' = FALSE
    /\ lastEvent' = Event(key, "done")
    /\ OutsideCameraKeys
    /\ UNCHANGED << keyStatus, oldMove >>

\* case "4": initThirdPersonController(), a character if there is none,
\* and a new CharacterController, whose constructor calls start(); the
\* controller the field referred to is not stopped
FirstKeyFour ==
    /\ Len(FirstControllers) < MaxFirstControllers
    /\ camera' = FirstThirdPersonCamera
    /\ characterVisible' = TRUE
    /\ earlierControllers' = FirstControllers
    /\ NewController
    /\ lastEvent' = Event("4", "done")
    /\ OutsideCameraKeys

\* one render: every observer left on onBeforeRenderObservable runs, and
\* those of the active controllers update the mesh and their camera
FirstRenderTick ==
    /\ updateLog' =
           SelectSeq([k \in 1 .. Len(FirstControllers) |->
                        [by |-> k,
                         updates |-> FirstControllers[k].onBeforeRender
                                     /\ FirstControllers[k].isActive]],
                     LAMBDA u : u.updates)
    /\ lastEvent' = Event("render", "done")
    /\ impulseLog' = << >>
    /\ writeLog' = << >>
    /\ jumpLog' = << >>
    /\ UNCHANGED << laneVars, isThirdperson, joystick, characterVars,
                    ctrlVars, rigVars >>

(***************************************************************************)
(* One pass of the render loop: scene.render() steps the physics engine    *)
(* and notifies onAfterPhysicsObservable, notifies                         *)
(* onBeforeRenderObservable (the controller's update) and then             *)
(* onAfterRenderObservable, whose one-shot callbacks run in the order they *)
(* were added and are removed.                                             *)
(***************************************************************************)
Bodies ==
    [ballDisablePreStep |-> ballDisablePreStep,
     ballMotionType |-> ballMotionType,
     pinDisablePreStep |-> pinDisablePreStep,
     pinMotionType |-> pinMotionType]

RunCallbackBallOnly(kind, b) ==
    IF kind = "angle"
    THEN [b EXCEPT !.ballDisablePreStep = TRUE]
    ELSE [b EXCEPT !.ballDisablePreStep = TRUE, !.ballMotionType = DYNAMIC]

RunCallback(kind, b) ==
    IF kind = "angle"
    THEN [b EXCEPT !.ballDisablePreStep = TRUE]
    ELSE IF kind = "stage0"
    THEN [b EXCEPT !.ballDisablePreStep = TRUE, !.ballMotionType = DYNAMIC]
    ELSE [b EXCEPT !.ballDisablePreStep = TRUE, !.ballMotionType = DYNAMIC,
                   !.pinDisablePreStep = [i \in Pins |-> TRUE],
                   !.pinMotionType = [i \in Pins |-> DYNAMIC]]

RECURSIVE RunCallbacks(_, _)
RunCallbacks(callbacks, b) ==
    IF callbacks = << >> THEN b
    ELSE RunCallbacks(Tail(callbacks), RunCallback(Head(callbacks), b))

\* the ball travels: it is DYNAMIC and has taken an impulse
BallTravels == ballMotionType = DYNAMIC /\ ballInMotion

\* what one physics step does to the pins: nothing, or one pin is rocked or
\* knocked over (several pins take several steps)
PinHits ==
    {[i \in Pins |-> "none"]} \cup
    {[i \in Pins |-> IF i = p THEN h ELSE "none"] :
        p \in Pins, h \in {"wobble", "fall"}}

\* The physics step.  A travelling ball stays or reaches the pit; while it
\* travels a DYNAMIC pin is left alone, rocked or knocked over, and a
\* DYNAMIC pin above the lane lands.  The engine writes a body's transform
\* into the Vector3 its node already has.
PhysicsStep ==
    \E hit \in PinHits :
        /\ \A i \in Pins :
              hit[i] # "none" => (BallTravels /\ pinMotionType[i] = DYNAMIC)
        /\ ballPosition' \in
              IF BallTravels
              THEN {ballPosition, [ballPosition EXCEPT !.z = BallPitZ]}
              ELSE {ballPosition}
        /\ pinRotation' = [i \in Pins |->
              IF hit[i] = "wobble" THEN WobbleRotation
              ELSE IF hit[i] = "fall" THEN FallenRotation
              ELSE pinRotation[i]]
        /\ vectors' = [o \in DOMAIN vectors |->
              IF \E i \in Pins : pinPosition[i] = o /\ hit[i] = "fall"
              THEN [x |-> RestPositions[o].x, y |-> 0,
                    z |-> RestPositions[o].z + PinPush]
              ELSE IF \E i \in Pins : pinPosition[i] = o /\ pinMotionType[i] = DYNAMIC
              THEN [vectors[o] EXCEPT !.y = 0]
              ELSE vectors[o]]

\* the physics step on the capsule: a character that was set moving may be
\* carried to another place
CapsuleStep ==
    capsulePosition' \in
        IF isMoving THEN {capsulePosition, CapsuleAway} ELSE {capsulePosition}

\* the one-shot observers of onAfterPhysicsObservable
RunAfterPhysics ==
    /\ capsuleDisablePreStep' =
           IF afterPhysics = << >> THEN capsuleDisablePreStep ELSE TRUE
    /\ afterPhysics' = << >>

\* the velocity the physics step leaves the capsule with: in the air the
\* one it had, and none once friction with the ground has spent it
SteppedVelocities ==
    IF capsuleVelocity.y # 0 THEN {capsuleVelocity, Still} ELSE {Still}

\* an exception thrown by an observer of onBeforeRenderObservable leaves
\* scene.render() before onAfterRenderObservable is notified
RenderTick ==
    /\ PhysicsStep
    /\ CapsuleStep
    /\ RunAfterPhysics
    /\ \E vel \in SteppedVelocities : ControllerUpdate(vel)
    /\ IF isActive /\ playAnimationThrows
       THEN /\ UNCHANGED << ballDisablePreStep, ballMotionType,
                            pinDisablePreStep, pinMotionType, afterRender >>
            /\ lastEvent' = Event("render", "threw")
       ELSE /\ LET b == RunCallbacks(afterRender, Bodies)
               IN  /\ ballDisablePreStep' = b.ballDisablePreStep
                   /\ ballMotionType' = b.ballMotionType
                   /\ pinDisablePreStep' = b.pinDisablePreStep
                   /\ pinMotionType' = b.pinMotionType
            /\ afterRender' = << >>
            /\ lastEvent' = Event("render", "done")
    /\ impulseLog' = << >>
    /\ writeLog' = << >>
    /\ jumpLog' = << >>
    /\ UNCHANGED << allowThrow, throwVars, laneStage, ballInMotion, ballYaw,
                    pinPosition, pendingTimers, isThirdperson, joystick,
                    characterVisible, keyStatus, isActive, isCrouching,
                    isRunning, moveSpeed, lookedUp, earlierControllers >>

(***************************************************************************)
(* Specifications.                                                         *)
(***************************************************************************)
\* Spec delivers an angle key or a nudge to a ready lane only when it keeps
\* the value within a few steps of the start value (a key delivered while a
\* throw resolves is not restricted); SpecAim and SpecNudge deliver them in
\* every state.
EnvAimUp == allowThrow => (0 <= throwAngle /\ throwAngle < MaxAim)

EnvAimDown == allowThrow => (0 < throwAngle /\ throwAngle <= MaxAim)

EnvNudgeLeft ==
    allowThrow => (~ballPosition.x.neg /\ FLt(ballPosition.x, FSteps(MaxNudge)))

EnvNudgeRight ==
    allowThrow => (FGt(ballPosition.x, FZero) /\ ~FGt(ballPosition.x, FSteps(MaxNudge)))

Next ==
    \/ KeyThrow
    \/ SwipeUp
    \/ SwipeDown
    \/ (EnvAimUp /\ KeyAngleUp)
    \/ (EnvAimDown /\ KeyAngleDown)
    \/ (EnvNudgeLeft /\ KeyLeft)
    \/ (EnvNudgeRight /\ KeyRight)
    \/ (EnvNudgeLeft /\ SwipeLeft)
    \/ (EnvNudgeRight /\ SwipeRight)
    \/ TimerFire
    \/ RenderTick

Spec == Init /\ [][Next]_vars

\* The throw cycle under the scheduling the runtime gives: a timer that was
\* set runs out, and the render loop keeps running.
NextThrow ==
    \/ KeyThrow
    \/ SwipeUp
    \/ (EnvAimUp /\ KeyAngleUp)
    \/ TimerFire
    \/ RenderTick

LiveSpec ==
    Init /\ [][NextThrow]_vars /\ WF_vars(TimerFire) /\ WF_vars(RenderTick)

NextAim ==
    \/ KeyThrow
    \/ SwipeUp
    \/ KeyAngleUp
    \/ KeyAngleDown
    \/ TimerFire
    \/ RenderTick

SpecAim == Init /\ [][NextAim]_vars

NextNudge ==
    \/ KeyLeft
    \/ KeyRight
    \/ SwipeLeft
    \/ SwipeRight
    \/ RenderTick

SpecNudge == Init /\ [][NextNudge]_vars

\* The keys and the swipes that throw and nudge, in every state, and the
\* timer.
NextSwipe ==
    \/ KeyThrow
    \/ SwipeUp
    \/ KeyLeft
    \/ KeyRight
    \/ SwipeLeft
    \/ SwipeRight
    \/ TimerFire

SpecSwipe == Init /\ [][NextSwipe]_vars

\* The lane resolutions together with the camera keys, which teleport the
\* capsule.
NextTeleport ==
    \/ KeyThrow
    \/ TimerFire
    \/ RenderTick
    \/ KeyOne
    \/ KeyTwo

SpecTeleport == Init /\ [][NextTeleport]_vars

\* The controller under the direction keys.
NextDirection ==
    \/ \E key \in DirectionKeys : KeyDown(key)
    \/ \E key \in DirectionKeys : KeyUp(key)
    \/ RenderTick

SpecDirection == Init /\ [][NextDirection]_vars

\* The controller under the keys that select speed and dance, one
\* direction key and the joystick.
ModeKeys == {"shift", "control", "g", "w"}

NextController ==
    \/ \E key \in ModeKeys : KeyDown(key)
    \/ \E key \in ModeKeys : KeyUp(key)
    \/ \E degree \in JoystickDegrees : JoystickEvent("move", degree)
    \/ JoystickEvent("start", 0)
    \/ JoystickEvent("end", 0)
    \/ RenderTick

SpecController == Init /\ [][NextController]_vars

\* The controller under the jump key and the forward key: the body it
\* drives and the camera that follows it.
FollowKeys == {" ", "w"}

NextFollow ==
    \/ \E key \in FollowKeys : KeyDown(key)
    \/ \E key \in FollowKeys : KeyUp(key)
    \/ RenderTick

SpecFollow == Init /\ [][NextFollow]_vars

\* The jump key and the render loop under the camera keys 1 and 2.
SwitchKeys == {" "}

NextSwitch ==
    \/ \E key \in SwitchKeys : KeyDown(key)
    \/ \E key \in SwitchKeys : KeyUp(key)
    \/ RenderTick
    \/ KeyOne
    \/ KeyTwo

SpecSwitch == Init /\ [][NextSwitch]_vars

\* The space key as one event, with the lane timer, the render loop and
\* the camera keys.
NextAction ==
    \/ SpaceKeyDown
    \/ TimerFire
    \/ RenderTick
    \/ KeyOne
    \/ KeyTwo

SpecAction == Init /\ [][NextAction]_vars

\* The throw, the lane timer and the render loop from a lane whose first
\* pin is tilted.
NextPinUp ==
    \/ KeyThrow
    \/ TimerFire
    \/ RenderTick

SpecPinUp == InitTilted /\ [][NextPinUp]_vars

\* The earlier iteration under its camera keys and the render loop.
NextFirst ==
    \/ FirstKeyOne
    \/ \E key \in FirstPersonKeys : FirstKeyFirstPerson(key)
    \/ FirstKeyFour
    \/ FirstRenderTick

SpecFirst == InitFirst /\ [][NextFirst]_vars

\* The controller of a character asset that lacks a clip, under the keys
\* that select the dance and the crouch.
ClipKeys == {"g", "shift"}

NextMissing ==
    \/ \E key \in ClipKeys : KeyDown(key)
    \/ \E key \in ClipKeys : KeyUp(key)
    \/ RenderTick

SpecMissing == InitMissing /\ [][NextMissing]_vars

(***************************************************************************)
(* Properties.                                                             *)
(***************************************************************************)
InputNames == {"space", "w", "s", "a", "d",
               "swipeup", "swipedown", "swipeleft", "swiperight"}

\* the step runs the timer callback of setLaneStage
Resolves == pendingTimers' = pendingTimers - 1

\* the step is a throw that went past the allowThrow guard
ThrowAccepted == pendingTimers' = pendingTimers + 1

StageCallbackPending ==
    \E k \in 1 .. Len(afterRender) : afterRender[k] \in {"stage0", "stage1"}

\* C1: from an accepted throw until its timer callback runs allowThrow is
\* false, and no step taken while the timer is pending applies an impulse.
C1_NoThrowWhileTimerPending ==
    [][ /\ pendingTimers > 0 => ~allowThrow
        /\ pendingTimers' > 0 => ~allowThrow'
        /\ pendingTimers > 0 => impulseLog' = << >> ]_vars

\* a throw key was delivered and rejected while the timer was pending
C1_Witness ==
    /\ pendingTimers > 0
    /\ lastEvent = Event("space", "rejected")

\* C2: a throw is accepted only when lane-stage processing has completed,
\* the deferred after-render step included: every impulse is applied while
\* the ball body is DYNAMIC and no stage callback is waiting for a render.
C2_ThrowOnlyAfterLaneProcessing ==
    \A k \in 1 .. Len(impulseLog) :
        /\ impulseLog[k].motionType = DYNAMIC
        /\ ~StageCallbackPending

\* C3: every accepted throw is followed by a state in which allowThrow is
\* true again.
C3_ThrowLeadsToReady == (~allowThrow) ~> allowThrow

\* a resolution has given allowThrow back
C3_Witness ==
    /\ allowThrow
    /\ lastEvent = Event("timer", "done")

\* C4: throwAngle is a multiple of 0.5 within [-5, 5].
C4_AngleClamped == throwAngle \in -10 .. 10

\* an angle key went past its guard with throwAngle at the upper end
C4_Witness ==
    /\ throwAngle = 10
    /\ lastEvent = Event("w", "done")

\* C5: after any sequence of nudges the ball's x lies in [-1.8, 1.8].
C5_BallWithinLane ==
    /\ ~FGt(ballPosition.x, F18)
    /\ ~FLt(ballPosition.x, FNeg(F18))

\* C6: with the ball's x beyond a lane bound, a nudge toward that side, by
\* key or by swipe, leaves the ball's position unchanged.
C6_NudgePastBoundRefused ==
    [][ /\ (FGt(ballPosition.x, F18) /\ lastEvent'.name \in {"a", "swipeleft"})
            => ballPosition' = ballPosition
        /\ (FLt(ballPosition.x, FNeg(F18)) /\ lastEvent'.name \in {"d", "swiperight"})
            => ballPosition' = ballPosition ]_vars

\* a left swipe found the ball beyond the bound and was refused
C6_Witness ==
    /\ FGt(ballPosition.x, F18)
    /\ lastEvent = Event("swipeleft", "refused")

\* C7: an input event delivered while allowThrow is false changes none of
\* throwAngle, the ball's position, the ball's disablePreStep flag,
\* laneStage and the pending timers, and applies no impulse.
C7_InputRejectedWhileResolving ==
    [][ (~allowThrow /\ lastEvent'.name \in InputNames)
            => /\ UNCHANGED << throwAngle, ballPosition, ballDisablePreStep,
                               laneStage, pendingTimers >>
               /\ impulseLog' = << >> ]_vars

\* a nudge key was delivered while a throw was resolving
C7_Witness ==
    /\ ~allowThrow
    /\ lastEvent = Event("a", "rejected")

\* C8: an accepted throw applies exactly one impulse (throwAngle, 0,
\* throwPower) at the ball's position; a stage-0 resolution that finds
\* every pin upright sets laneStage to 1, changes no pin's motion type or
\* position, puts the ball on (0, 0.5, 1) and sets allowThrow.
C8_ThrowAndCleanResolution ==
    [][ /\ ThrowAccepted =>
              /\ Len(impulseLog') = 1
              /\ impulseLog'[1].vector = [x |-> throwAngle, y |-> 0, z |-> throwPower]
              /\ impulseLog'[1].at = ballPosition
        /\ (Resolves /\ laneStage = 0 /\ \A i \in Pins : isPinUp(pinRotation[i])) =>
              /\ laneStage' = 1
              /\ pinMotionType' = pinMotionType
              /\ \A i \in Pins : vectors'[pinPosition'[i]] = vectors[pinPosition[i]]
              /\ ballPosition' = BallLaunch
              /\ allowThrow' ]_vars

\* a throw at an angle has been resolved with every pin still free
C8_Witness ==
    /\ lastEvent = Event("timer", "done")
    /\ laneStage = 1
    /\ allowThrow
    /\ throwAngle # 0
    /\ \A i \in Pins : pinMotionType[i] = DYNAMIC /\ pinDisablePreStep[i]

C10_FullResetRestoresPins ==
    (lastEvent = Event("timer", "done") /\ laneStage = 0) =>
        /\ \A i \in Pins :
              /\ vectors[pinPosition[i]] = RestPositions[i]
              /\ pinRotation[i] = UprightRotation
        /\ ballPosition = BallLaunch

\* C11: laneStage is 0 at the start, every resolution toggles it and no
\* other step changes it, and a resolution is the full pin reset exactly
\* when it finds laneStage = 1, i.e. on every second resolution.
C11_LaneStageAlternates ==
    /\ laneStage = 0
    /\ [][ /\ Resolves => laneStage' = 1 - laneStage
           /\ ~Resolves => laneStage' = laneStage
           /\ Resolves => (laneStage = 1 <=>
                              afterRender' = Append(afterRender, "stage1")) ]_vars

\* the second resolution has run the full reset and put laneStage back to 0
C11_Witness ==
    /\ lastEvent = Event("timer", "done")
    /\ laneStage = 0
    /\ afterRender # << >>
    /\ afterRender[Len(afterRender)] = "stage1"

\* pin i was frozen as fallen by the stage-0 resolution of this lane cycle
HiddenByStage0(i) ==
    /\ laneStage = 1
    /\ pinMotionType[i] = STATIC
    /\ PinPos(i).y = PinHiddenY

\* C12 as stated: while a throw is resolving every pin body is DYNAMIC.
C12_PinsDynamicWhileResolving ==
    pendingTimers > 0 => \A i \in Pins : pinMotionType[i] = DYNAMIC

\* C12 as amended: while a throw is resolving every pin body is DYNAMIC,
\* except the pins the stage-0 resolution froze as fallen (STATIC at
\* y = 1.5 through the second throw) and pins frozen by a resolution whose
\* after-render release has not run yet.
C12_FreePinsDynamicWhileResolving ==
    pendingTimers > 0 =>
        \A i \in Pins :
            \/ pinMotionType[i] = DYNAMIC
            \/ HiddenByStage0(i)
            \/ StageCallbackPending

\* the second throw of a cycle is resolving with one pin hidden and one free
C12_Witness ==
    /\ pendingTimers > 0
    /\ ~StageCallbackPending
    /\ \E i, j \in Pins :
          /\ HiddenByStage0(i)
          /\ pinMotionType[j] = DYNAMIC

\* C15: at most one timer of setLaneStage is pending at any time.
C15_OneTimerPending == pendingTimers <= 1

\* a throw by swipe was turned away while the timer of a throw was pending
C15_Witness ==
    /\ pendingTimers = 1
    /\ lastEvent = Event("swipeup", "rejected")

\* C13: in the writes of every callback, a write to the position of a body
\* (the ball, a pin, the capsule) comes after the write that sets the
\* disablePreStep flag of that body to false.
C13_OpenBeforeTeleport ==
    \A k \in 1 .. Len(writeLog) :
        writeLog[k].field = "position" =>
            \E j \in 1 .. k - 1 :
                writeLog[j] = Write(writeLog[k].body, "disablePreStep=false")

\* a stage-0 resolution has teleported the ball and a fallen pin
C13_Witness ==
    /\ lastEvent = Event("timer", "done")
    /\ laneStage = 1
    /\ \E k \in 1 .. Len(writeLog) :
          writeLog[k].field = "position" /\ writeLog[k].body.kind = "pin"

\* C14: the render pass that follows a resolution sets disablePreStep back
\* to true on the ball and on every pin the resolution opened.
C14_ReenabledAfterOneTick ==
    [][ (lastEvent = Event("timer", "done") /\ lastEvent'.name = "render") =>
          \A k \in 1 .. Len(writeLog) :
              writeLog[k].field = "disablePreStep=false" =>
                  IF writeLog[k].body.kind = "ball"
                  THEN ballDisablePreStep'
                  ELSE pinDisablePreStep'[writeLog[k].body.index] ]_vars

\* C16: calculateDirectionOffset on the pressed direction flags is forward
\* 0, forward+right 45, forward+left -45, back 180, back+right 135,
\* back+left -135, right 90, left -90, nothing pressed 0 (degrees); the
\* result is the same when every arrow key is replaced by its letter, and
\* it is the offset a tick of the keyboard branch turns the mesh by.
C16_DirectionOffsetTable ==
    LET F == keyStatus["w"] \/ keyStatus["arrowup"]
        B == keyStatus["s"] \/ keyStatus["arrowdown"]
        L == keyStatus["a"] \/ keyStatus["arrowleft"]
        R == keyStatus["d"] \/ keyStatus["arrowright"]
        letters == [k \in StatusKeys |->
                       IF k = "w" THEN F ELSE IF k = "s" THEN B
                       ELSE IF k = "a" THEN L ELSE IF k = "d" THEN R
                       ELSE IF k \in DirectionKeys THEN FALSE
                       ELSE keyStatus[k]]
        offset == calculateDirectionOffset(keyStatus)
    IN  /\ (F /\ ~B /\ ~L /\ ~R) => offset = 0
        /\ (F /\ ~B /\ ~L /\ R) => offset = 45
        /\ (F /\ ~B /\ L /\ ~R) => offset = -45
        /\ (~F /\ B /\ ~L /\ ~R) => offset = 180
        /\ (~F /\ B /\ ~L /\ R) => offset = 135
        /\ (~F /\ B /\ L /\ ~R) => offset = -135
        /\ (~F /\ ~B /\ ~L /\ R) => offset = 90
        /\ (~F /\ ~B /\ L /\ ~R) => offset = -90
        /\ (~F /\ ~B /\ ~L /\ ~R) => offset = 0
        /\ offset = calculateDirectionOffset(letters)
        /\ (lastEvent.name = "render" /\ facing.branch = "keys") =>
               facing.offset = offset

\* a tick has turned the mesh for back+right, pressed as ArrowDown and D
C16_Witness ==
    /\ lastEvent = Event("render", "done")
    /\ facing = [branch |-> "keys", offset |-> 135]
    /\ keyStatus["arrowdown"] /\ ~keyStatus["s"]
    /\ keyStatus["d"] /\ ~keyStatus["arrowright"]

\* C17: moveSpeed is CROUCH_SPEED whenever isCrouching, otherwise RUN_SPEED
\* when isRunning, otherwise WALK_SPEED.
C17_SpeedPrecedence ==
    moveSpeed = IF isCrouching THEN CROUCH_SPEED
                ELSE IF isRunning THEN RUN_SPEED
                ELSE WALK_SPEED

\* C18: a jump impulse is applied only by a key-down of space that finds
\* the key released, i.e. there is a key-up between any two impulses.
C18_NoJumpWhileHeld ==
    [][ jumpLog' # << >> => ~keyStatus[" "] ]_vars

\* C19: after a tick of an active controller exactly one clip is started,
\* the one the table gives for (isMoving, isCrouching, isRunning, isDancing).
C19_ClipFromFlags ==
    (lastEvent.name = "render" /\ isActive) =>
        \A c \in Clips :
            animations[c] <=>
                \/ c = "sneakwalk" /\ isMoving /\ isCrouching
                \/ c = "run" /\ isMoving /\ ~isCrouching /\ isRunning
                \/ c = "walk" /\ isMoving /\ ~isCrouching /\ ~isRunning
                \/ c = "rumba" /\ ~isMoving /\ isDancing
                \/ c = "crouch" /\ ~isMoving /\ ~isDancing /\ isCrouching
                \/ c = "idle" /\ ~isMoving /\ ~isDancing /\ ~isCrouching

\* a tick has replaced the idle clip by the dance
C19_Witness ==
    /\ lastEvent = Event("render", "done")
    /\ isActive
    /\ animations["rumba"]
    /\ isCrouching

\* C20: isDancing is false after every Shift key-down and after every tick
\* in which a direction key is down or the latest joystick event is a
\* move, and the dance clip is not started by a tick that leaves the
\* character moving.
C20_DanceCancelled ==
    [][ /\ (isActive /\ lastEvent'.name = KeyDownName("shift")) => ~isDancing'
        /\ (isActive /\ lastEvent'.name = "render"
                /\ (DirectionPressed \/ joystick.type = "move")) => ~isDancing'
        /\ (isActive /\ lastEvent'.name = "render" /\ isMoving')
               => ~animations'["rumba"] ]_vars

\* C26: a swipe up makes the change to the impulse applied, allowThrow and
\* the pending timers that the throw key makes in the same state (one
\* impulse (throwAngle, 0, throwPower) at the ball, allowThrow false, one
\* more timer; nothing when allowThrow is false), and a swipe left or right
\* makes the change to the ball's x that A or D makes (0.05 toward that
\* side unless x is beyond the bound or allowThrow is false).
C26_SwipeSameAsKey ==
    [][ /\ lastEvent'.name \in {"space", "swipeup"} =>
              IF allowThrow
              THEN /\ impulseLog' =
                         << [vector |-> [x |-> throwAngle, y |-> 0, z |-> throwPower],
                             at |-> ballPosition,
                             motionType |-> ballMotionType] >>
                   /\ ~allowThrow'
                   /\ pendingTimers' = pendingTimers + 1
              ELSE /\ impulseLog' = << >>
                   /\ UNCHANGED << allowThrow, pendingTimers >>
        /\ lastEvent'.name \in {"a", "swipeleft"} =>
              ballPosition'.x =
                 IF allowThrow /\ ~FGt(ballPosition.x, F18)
                 THEN FAdd(ballPosition.x, F005) ELSE ballPosition.x
        /\ lastEvent'.name \in {"d", "swiperight"} =>
              ballPosition'.x =
                 IF allowThrow /\ ~FLt(ballPosition.x, FNeg(F18))
                 THEN FSub(ballPosition.x, F005) ELSE ballPosition.x ]_vars

\* a swipe up has thrown the ball from a place a swipe left put it on
C26_Witness ==
    /\ lastEvent = Event("swipeup", "done")
    /\ Len(impulseLog) = 1
    /\ FGt(ballPosition.x, FZero)
    /\ pendingTimers = 1

\* C21: with a clip missing from the character asset the controller does
\* not fail: every tick runs to its end, and the clips that are present are
\* started and stopped as the flags say.
C21_TicksCompleteWithMissingClip ==
    lastEvent.name = "render" =>
        /\ lastEvent.outcome = "done"
        /\ \A c \in lookedUp :
               animations[c] <=>
                   c = updateCharacterAnimation(isMoving, isCrouching,
                                                isRunning, isDancing)

C23_CameraKeepsOffset ==
    [][ (/\ lastEvent'.name = "render"
         /\ isActive
         /\ \A k \in 1 .. Len(updateLog') : ~updateLog'[k].result.hasHit)
            => Minus(camera'.position, capsulePosition')
                  = Minus(camera.position, capsulePosition) ]_vars

\* C24: after a tick of the active controller the camera's
\* upperRadiusLimit is the distance from the eye point (the body's position
\* raised by 1.15) to the hit point when the ray from the eye point to the
\* camera hit something, and 10 when it hit nothing.
C24_RadiusLimitFromRay ==
    (lastEvent = Event("render", "done") /\ isActive) =>
        LET result == updateLog[Len(updateLog)].result
        IN  camera.upperRadiusLimit =
               IF result.hasHit
               THEN Distance(result.hitPointWorld,
                             [capsulePosition EXCEPT !.y = @ + 115])
               ELSE 1000

\* the ray has met the wall behind the character and the limit is the
\* distance to the wall
C24_Witness ==
    /\ lastEvent = Event("render", "done")
    /\ isActive
    /\ updateLog[1].result.hasHit
    /\ updateLog[1].result.hitPointWorld.z = WallZ
    /\ camera.upperRadiusLimit < DefaultRadiusLimit

\* C25: key 1 detaches the follow rig: once the scene camera is selected
\* no controller has an observer on onBeforeRenderObservable or on
\* onKeyboardObservable, and at any time at most one observer of each kind
\* is registered.
C25_RigDetachedByKeyOne ==
    LET onRender == {k \in 1 .. Len(Controllers) : Controllers[k].onBeforeRender}
        onKeys == {k \in 1 .. Len(Controllers) : Controllers[k].onKeyboard}
    IN  /\ ~isThirdperson => (onRender = {} /\ onKeys = {})
        /\ Cardinality(onRender) <= 1
        /\ Cardinality(onKeys) <= 1

\* C30: under the keys 1 and 2 at most one controller has isActive true,
\* and only the controller in use acts: every jump impulse and every update
\* of velocity and camera is made by the latest controller while the
\* third-person camera is selected, never by a controller that key 1
\* stopped.
C30_OnlyActiveControllerActs ==
    /\ Cardinality({k \in 1 .. Len(Controllers) : Controllers[k].isActive}) <= 1
    /\ \A j \in 1 .. Len(jumpLog) :
           jumpLog[j].by = Len(Controllers) /\ isThirdperson
    /\ \A u \in 1 .. Len(updateLog) :
           updateLog[u].by = Len(Controllers) /\ isThirdperson

\* after 1 and 2 the new controller updates velocity and camera while the
\* stopped one is still subscribed
C30_Witness ==
    /\ earlierControllers # << >>
    /\ earlierControllers[1].onBeforeRender
    /\ ~earlierControllers[1].isActive
    /\ Len(updateLog) = 1
    /\ capsuleVelocity.y > 0

\* C27: one key-down event of the space key throws the ball or makes the
\* character jump, never both: no event leaves both an impulse on the ball
\* and a jump impulse on the capsule.
C27_ThrowOrJump == ~(impulseLog # << >> /\ jumpLog # << >>)

\* C28: isPinUp is true exactly when the pin has an orientation and each of
\* its three Euler angles is off the upright angle by strictly less than
\* 0.07: the timer callback of lane stage 0, which hides the pins that
\* isPinUp reports as not upright, writes to a pin iff the pin has no
\* orientation or an angle off by 0.07 or more.
C28_UprightWithinMargin ==
    [][(lastEvent'.name = "timer" /\ laneStage = 0) =>
         \A i \in Pins :
            LET rotation == pinRotation[i]
                hidden == \E w \in 1 .. Len(writeLog') :
                              writeLog'[w] = Write(PinBody(i), "position")
                upright == /\ rotation.set
                           /\ -7 < rotation.x /\ rotation.x < 7
                           /\ -7 < rotation.y /\ rotation.y < 7
                           /\ -7 < rotation.z /\ rotation.z < 7
            IN  hidden <=> ~upright]_vars

\* the callback has left a pin that is 0.06 off on every axis and has
\* hidden another pin
C28_Witness ==
    /\ lastEvent = Event("timer", "done")
    /\ laneStage = 1
    /\ pinRotation[1] = [set |-> TRUE, x |-> 6, y |-> -6, z |-> 6]
    /\ writeLog # << >>
    /\ \A w \in 1 .. Len(writeLog) : writeLog[w].body # PinBody(1)
    /\ \E w \in 1 .. Len(writeLog) : writeLog[w].body = PinBody(2)

\* C29: in the iteration with the camera keys 1 to 4 at most one controller
\* is active after any sequence of camera keys, and no render has two
\* controllers updating the mesh.
C29_OneActiveController ==
    /\ Cardinality({k \in 1 .. Len(FirstControllers) :
                        FirstControllers[k].isActive}) <= 1
    /\ Len(updateLog) <= 1

\* C31: every write of an input handler to the ball's position, the nudge
\* to the left or right by key or swipe, is made while disablePreStep of
\* the ball body is false.
C31_NudgeWithPreStepOpen ==
    [][(/\ lastEvent'.name \in {"a", "d", "swipeleft", "swiperight"}
        /\ lastEvent'.outcome = "done"
        /\ ballPosition' # ballPosition)
       => (~ballDisablePreStep /\ ~ballDisablePreStep')]_vars

\* C32: an angle key at the clamp bound changes nothing, so before the
\* first throw the yaw of the ball mesh is -(throwAngle / 0.5) * 0.01 * pi:
\* one turn of 0.01 pi against each step of 0.5 of throwAngle.
C32_YawFollowsAngle == ballYaw.known => ballYaw.turns = -throwAngle

\* C33: for every set of pressed direction keys the offset of
\* calculateDirectionOffset is on the side of the movement that the same
\* update commands: an offset to the right (between 0 and pi) comes with a
\* velocity to the right, an offset to the left with a velocity to the left.
C33_FacingOnSideOfMovement ==
    \A u \in 1 .. Len(updateLog) :
        facing.branch = "keys" =>
            /\ (0 < facing.offset /\ facing.offset < 180)
                   => updateLog[u].issued.x > 0
            /\ facing.offset < 0 => updateLog[u].issued.x < 0

\* C34: a pin frozen as fallen by the stage-0 resolution keeps classifying
\* as not upright until the full reset: between the two resolutions
\* countStandingPins() counts none of the pins the stage-0 resolution has
\* hidden, so it is at most the number of pins left on the lane.
C34_HiddenPinsNotCounted ==
    laneStage = 1 =>
        countStandingPins <= Cardinality({i \in Pins : ~HiddenByStage0(i)})

\* C35: whenever the latest joystick event is a move, at any angle, the
\* update of the active controller takes the joystick branch: it leaves
\* isMoving true and the facing and velocity come from the joystick.
C35_JoystickMoveDrivesTick ==
    (updateLog # << >> /\ isActive /\ joystick.type = "move")
        => (isMoving /\ facing.branch = "joystick")

\* C36: the timer callback of either lane stage leaves throwAngle and
\* throwPower as they are and puts the ball back on x = 0: a nudge does not
\* carry over to the next throw, the chosen angle does.
C36_ResolutionKeepsAimDropsNudge ==
    [][lastEvent'.name = "timer" =>
          /\ throwAngle' = throwAngle
          /\ throwPower' = throwPower
          /\ ballPosition'.x = FZero]_vars

\* a resolution has run on a lane with an angle chosen and the ball moved
\* back from a nudged position
C36_Witness ==
    /\ lastEvent = Event("timer", "done")
    /\ throwAngle # 0
    /\ ballPosition = BallLaunch
    /\ writeLog # << >>

\* C37: the table pinPositions is constant after construction: every entry
\* keeps the value the constructor gave it.
C37_RestTableConstant ==
    \A i \in Pins : vectors[pinPositions(i)] = RestPositions[i]

====
